---- MODULE Spec2Model ----
(***************************************************************************)
(* Model of the CypherPoker.JS desktop entry point (Electron main script): *)
(* the application environment electronEnv, the loading of the database    *)
(* adapter and server scripts into vm contexts, and the startup chain      *)
(* bound to Electron's ready / activate / window-all-closed events.        *)
(*                                                                         *)
(* JavaScript objects that the code shares by reference live in a heap     *)
(* (a sequence of property maps); a reference is an index into the heap.   *)
(* Promise continuations are microtasks: no Electron event is delivered    *)
(* while one is queued.                                                    *)
(***************************************************************************)
EXTENDS Integers, Sequences, FiniteSets, TLC

\* Upper bound on the number of 'activate' events delivered in one run.
MaxActivate == 2

\* JavaScript null, as a reference (heap references and window ids are >= 1).
Null == 0

\* The heap reference of the object literal electronEnv.server.exposed_objects.
ExposedObjectsRef == 1

\* Property names of the exposed_objects literal.
CapabilityNames ==
  {"electronEnv", "require", "Buffer", "console", "module", "setInterval",
   "clearInterval", "setTimeout", "clearTimeout", "process"}

\* The exposed_objects literal: electronEnv is null, every other entry is
\* the host object of the same name.
ExposedObjectsInit ==
  [n \in CapabilityNames |-> IF n = "electronEnv" THEN "null" ELSE n]

\* What `new Object()` evaluates to: an object without own properties.
EmptyObject == [n \in {} |-> ""]

\* The electronEnv object literal (exposed_objects is held by reference).
ElectronEnvInit ==
  [dir      |-> [server |-> "../server/", client |-> "../web/"],
   client   |-> [host |-> Null, width |-> 1024, height |-> 768],
   server   |-> [exposed_objects |-> ExposedObjectsRef, onInit |-> "createClient"],
   database |-> [sqlite3 |-> [adapter |-> Null,
                              script  |-> "./adapters/sqlite3.js",
                              bin     |-> "./bin/sqlite/%os%/%bin%"]]]

\* A script file on disk: whether it can be read, the error its execution
\* raises (if any), and the top-level names its execution binds.
NoFile == [exists |-> FALSE, error |-> "none", binds |-> {}]

ScriptFile(error, binds) == [exists |-> TRUE, error |-> error, binds |-> binds]

AdapterScripts ==
  {NoFile,
   ScriptFile("SyntaxError", {}),
   ScriptFile("Error", {"initialize"}),
   ScriptFile("none", {}),
   ScriptFile("none", {"initialize"})}

ServerScripts ==
  {NoFile,
   ScriptFile("SyntaxError", {}),
   ScriptFile("Error", {"initialize"}),
   ScriptFile("none", {}),
   ScriptFile("none", {"initialize"})}

\* Values an adapter's initialize() may resolve with, and reasons it may
\* reject with ("undefined": a rejection without a reason).
ResolveValues == {"true", "false"}

RejectReasons == {"Error", "undefined"}

Platforms == {"darwin", "linux"}

VARIABLES
  electronEnv,     \* the electronEnv object
  heap,            \* heap[r]: property map of the object with reference r
  files,           \* path -> script file
  platform,        \* process.platform
  chains,          \* one entry per startDatabase(...).then(...).catch(...) chain
  serverContexts,  \* references of the contexts server scripts ran in
  onInitPending,   \* loaded servers that have not yet invoked onInit
  windows,         \* ids of the BrowserWindows that are open
  windowCount,     \* BrowserWindows constructed so far
  allClosedQueued, \* a 'window-all-closed' event is waiting for delivery
  unhandled,       \* rejected promises without a handler, not yet reported
  readyFired,      \* the 'ready' event was delivered
  activateCount,   \* 'activate' events delivered
  applicationMenu, \* "default" or "null"
  running,         \* FALSE once app.quit() was called
  log              \* observable events, in order

vars == <<electronEnv, heap, files, platform, chains, serverContexts,
          onInitPending, windows, windowCount, allClosedQueued, unhandled,
          readyFired, activateCount, applicationMenu, running, log>>

----------------------------------------------------------------------------
\* Observable events.

Ev(e, s) == [e |-> e, s |-> s, w |-> 0, h |-> 0, t |-> ""]

WindowEv(w, h, path, title) ==
  [e |-> "windowCreate", s |-> path, w |-> w, h |-> h, t |-> title]

Count(kind) == Cardinality({i \in 1..Len(log) : log[i].e = kind})

----------------------------------------------------------------------------
\* Library functions, as the code uses them.

\* fs.readFileSync(path): the file, or NoFile when the read throws.
readFileSync(path) == IF path \in DOMAIN files THEN files[path] ELSE NoFile

\* Object.assign(target, source) on heap hp: copies source's own properties
\* onto target. The call evaluates to the reference `target`.
ObjectAssign(hp, target, source) ==
  [hp EXCEPT ![target] =
     [n \in (DOMAIN hp[target]) \cup (DOMAIN hp[source]) |->
        IF n \in DOMAIN hp[source] THEN hp[source][n] ELSE hp[target][n]]]

\* vm.createContext(obj): contextifies obj in place and evaluates to obj.
vmCreateContext(obj) == obj

\* vm.runInContext(script, context): the top-level names of the script are
\* bound as properties of the context object (hoisted function declarations
\* are bound even when execution then raises; a syntax error binds nothing).
vmRunInContext(hp, script, context, owner) ==
  LET binds == IF script.error = "SyntaxError" THEN {} ELSE script.binds
  IN  [hp EXCEPT ![context] =
         [n \in (DOMAIN hp[context]) \cup binds |->
            IF n \in binds THEN owner \o ":" \o n ELSE hp[context][n]]]

----------------------------------------------------------------------------
\* The functions of the script. Each evaluates to the state it leaves
\* behind and the events it produced, in order.

appVersion == "0.4.0"

appTitle == "CypherPoker.JS v" \o appVersion

\* startDatabase(dbAdapter) (with awaited = TRUE), from its call up to its first suspension (the
\* await on initialize) or, when it does not get that far, up to its end.
\*   pc = "awaitInit":  suspended on the promise initialize() returned
\*   pc = "dbResolved": returned `value` (initialize could not be called;
\*                      the TypeError was caught by the try block)
\*   pc = "dbRejected": threw `value` before the try block
startDatabaseFrom(env, hp, dbAdapter, awaited) ==
  IF dbAdapter \notin DOMAIN env.database
  THEN \* adapterData is undefined: reading adapterData.script throws
       [env |-> env, heap |-> hp, events |-> <<>>, called |-> FALSE,
        pc |-> "dbRejected", value |-> "TypeError", threw |-> "load"]
  ELSE
  LET adapterData   == env.database[dbAdapter]
      scriptPath    == adapterData.script
      adapterScript == readFileSync(scriptPath)
      hp1           == Append(hp, EmptyObject)                  \* new Object()
      vmContext     == env.server.exposed_objects               \* Object.assign's result
      hp2           == ObjectAssign(hp1, env.server.exposed_objects, Len(hp1))
      context       == vmCreateContext(vmContext)
      hp3           == vmRunInContext(hp2, adapterScript, context, "adapter")
      env3          == [env EXCEPT !.database[dbAdapter].adapter = context]
  IN  IF ~adapterScript.exists
      THEN [env |-> env, heap |-> hp, events |-> <<>>, called |-> FALSE,
            pc |-> "dbRejected", value |-> "ENOENT", threw |-> "load"]
      ELSE IF adapterScript.error # "none"
      THEN [env |-> env, heap |-> hp3, events |-> <<>>, called |-> FALSE,
            pc |-> "dbRejected", value |-> adapterScript.error, threw |-> "load"]
      ELSE IF "initialize" \notin DOMAIN hp3[context]
      THEN \* context.initialize is not a function: TypeError inside try
           [env |-> env3, heap |-> hp3, called |-> FALSE,
            events |-> <<Ev("adapterLoaded", dbAdapter),
                         Ev("console.error", "Couldn't initialize " \o dbAdapter)>>,
            pc |-> "dbResolved", value |-> "false", threw |-> "none"]
      ELSE [env |-> env3, heap |-> hp3, called |-> TRUE,
            events |-> <<Ev("adapterLoaded", dbAdapter)>>,
            pc |-> IF awaited THEN "awaitInit" ELSE "dbResolved",
            value |-> IF awaited THEN "" ELSE "true", threw |-> "none"]

\* startDatabase without the await: it returns while initialize is pending.
startDatabaseNoAwait(env, hp, dbAdapter) == startDatabaseFrom(env, hp, dbAdapter, FALSE)

\* startDatabase creating its context object before it reads the script.
startDatabaseContextFirst(env, hp, dbAdapter) ==
  LET r == startDatabaseFrom(env, hp, dbAdapter, TRUE)
  IN  IF r.value = "ENOENT" THEN [r EXCEPT !.heap = Append(hp, EmptyObject)] ELSE r

\* startDatabase answering false for a name without a descriptor.
startDatabaseUnknownFalse(env, hp, dbAdapter) ==
  LET r == startDatabaseFrom(env, hp, dbAdapter, TRUE)
  IN  IF dbAdapter \notin DOMAIN env.database
      THEN [r EXCEPT !.pc = "dbResolved", !.value = "false", !.threw = "none"]
      ELSE r

\* startDatabase storing the handle only after initialize has resolved.
startDatabaseStoreLate(env, hp, dbAdapter) ==
  LET r == startDatabaseFrom(env, hp, dbAdapter, TRUE)
  IN  IF r.pc = "awaitInit" THEN [r EXCEPT !.env = env] ELSE r

startDatabase(env, hp, dbAdapter) == startDatabaseFrom(env, hp, dbAdapter, TRUE)

\* startDatabase(dbAdapter) from the await on: `init` is the outcome of the
\* promise initialize() returned.
startDatabaseResume(dbAdapter, init) ==
  IF init.kind = "resolved"
  THEN [events |-> <<>>, pc |-> "dbResolved", value |-> "true", threw |-> "none"]
  ELSE IF init.v = "undefined"
  THEN \* err.stack on a missing reason throws inside the catch block
       [events |-> <<>>, pc |-> "dbRejected", value |-> "TypeError", threw |-> "catch"]
  ELSE [events |-> <<Ev("console.error", "Couldn't initialize " \o dbAdapter)>>,
        pc |-> "dbResolved", value |-> "false", threw |-> "none"]

\* createServer(): threw = TRUE when the returned promise is rejected.
createServer(env, hp) ==
  LET hp0          == [hp EXCEPT ![env.server.exposed_objects]["electronEnv"] = "electronEnv"]
      scriptPath   == env.dir.server \o "server.js"
      serverScript == readFileSync(scriptPath)
      hp1          == Append(hp0, EmptyObject)                  \* new Object()
      vmContext    == env.server.exposed_objects                \* Object.assign's result
      hp2          == ObjectAssign(hp1, env.server.exposed_objects, Len(hp1))
      context      == vmCreateContext(vmContext)
      hp3          == vmRunInContext(hp2, serverScript, context, "server")
  IN  IF ~serverScript.exists
      THEN [heap |-> hp0, events |-> <<Ev("createServer", scriptPath)>>,
            threw |-> TRUE, context |-> Null, ran |-> FALSE]
      ELSE IF serverScript.error # "none"
      THEN [heap |-> hp3, events |-> <<Ev("createServer", scriptPath)>>,
            threw |-> TRUE, context |-> context, ran |-> FALSE]
      ELSE [heap |-> hp3,
            events |-> <<Ev("createServer", scriptPath), Ev("serverLoaded", scriptPath)>>,
            threw |-> FALSE, context |-> context, ran |-> TRUE]

\* mainWindow had the script declared it (let mainWindow = null) without
\* ever assigning it.
mainWindowDeclared == "null"

\* The identifier mainWindow as onAppActivate evaluates it: the script
\* declares no such name, so the evaluation throws a ReferenceError.
mainWindow == "ReferenceError"

\* A microtask (promise continuation) is queued: it runs before any event.
MicrotaskQueued ==
  \E c \in 1..Len(chains) : chains[c].pc \in {"resume", "dbResolved", "dbRejected"}

\* The expression startDatabase(dbAdapter).then(...).catch(...), evaluated
\* by `trigger`: runs startDatabase up to its first suspension and queues
\* the chain.
startChainFor(trigger, dbAdapter) ==
  LET r == startDatabase(electronEnv, heap, dbAdapter)
  IN  /\ electronEnv' = r.env
      /\ heap' = r.heap
      /\ log' = log \o <<Ev("startDatabase", dbAdapter)>> \o r.events
      /\ chains' = Append(chains,
            [trigger |-> trigger, adapter |-> dbAdapter, pc |-> r.pc,
             init |-> [kind |-> "pending", v |-> ""],
             initCalled |-> r.called,
             value |-> r.value, threw |-> r.threw, serverCalled |-> FALSE])

\* The chain as the handlers write it: the adapter name is "sqlite3".
startChain(trigger) == startChainFor(trigger, "sqlite3")

----------------------------------------------------------------------------
\* Initial state: the script has run to its end (electronEnv constructed,
\* start() has bound the three app events); the files on disk and the
\* platform are whatever the installation provides.

Init ==
  /\ electronEnv = ElectronEnvInit
  /\ heap = <<ExposedObjectsInit>>
  /\ \E a \in AdapterScripts, sv \in ServerScripts :
       files = [p \in {ElectronEnvInit.database.sqlite3.script,
                       ElectronEnvInit.dir.server \o "server.js"} |->
                  IF p = ElectronEnvInit.database.sqlite3.script THEN a ELSE sv]
  /\ platform \in Platforms
  /\ chains = <<>>
  /\ serverContexts = <<>>
  /\ onInitPending = 0
  /\ windows = {}
  /\ windowCount = 0
  /\ allClosedQueued = FALSE
  /\ unhandled = 0
  /\ readyFired = FALSE
  /\ activateCount = 0
  /\ applicationMenu = "default"
  /\ running = TRUE
  /\ log = <<>>

\* An Electron event can be delivered: the app runs and no microtask waits.
Deliverable == running /\ ~MicrotaskQueued

----------------------------------------------------------------------------
\* Event handlers.

\* app 'ready' (emitted once).
onAppReady ==
  /\ Deliverable
  /\ ~readyFired
  /\ readyFired' = TRUE
  /\ applicationMenu' = "null"
  /\ startChain("ready")
  /\ UNCHANGED <<files, platform, serverContexts, onInitPending, windows,
                 windowCount, allClosedQueued, unhandled, activateCount, running>>

\* app 'activate' (macOS only).
onAppActivate ==
  /\ Deliverable
  /\ platform = "darwin"
  /\ activateCount < MaxActivate
  /\ activateCount' = activateCount + 1
  /\ applicationMenu' = "null"
  /\ IF mainWindow = "ReferenceError"
     THEN \* the handler ends with an uncaught exception
          /\ log' = log \o <<Ev("activate", ""), Ev("uncaughtException", "ReferenceError")>>
          /\ UNCHANGED <<electronEnv, heap, chains>>
     ELSE IF mainWindow = "null"
     THEN startChain("activate")
     ELSE /\ log' = log \o <<Ev("activate", "")>>
          /\ UNCHANGED <<electronEnv, heap, chains>>
  /\ UNCHANGED <<files, platform, serverContexts, onInitPending, windows,
                 windowCount, allClosedQueued, unhandled, readyFired, running>>

\* The promise returned by the adapter's initialize() settles.
InitializeSettles ==
  \E c \in 1..Len(chains) :
    /\ running
    /\ chains[c].pc = "awaitInit"
    /\ \E init \in [kind : {"resolved"}, v : ResolveValues]
                   \cup [kind : {"rejected"}, v : RejectReasons] :
         /\ chains' = [chains EXCEPT ![c].pc = "resume", ![c].init = init]
         /\ log' = log \o <<Ev(IF init.kind = "resolved" THEN "adapterInitialized"
                                                        ELSE "adapterInitRejected", init.v)>>
    /\ UNCHANGED <<electronEnv, heap, files, platform, serverContexts,
                   onInitPending, windows, windowCount, allClosedQueued,
                   unhandled, readyFired, activateCount, applicationMenu, running>>

\* Microtask: startDatabase resumes after its await and runs to its end.
startDatabaseContinue ==
  \E c \in 1..Len(chains) :
    /\ running
    /\ chains[c].pc = "resume"
    /\ LET r == startDatabaseResume(chains[c].adapter, chains[c].init)
       IN  /\ chains' = [chains EXCEPT ![c].pc = r.pc, ![c].value = r.value,
                                       ![c].threw = r.threw]
           /\ log' = log \o r.events
    /\ UNCHANGED <<electronEnv, heap, files, platform, serverContexts,
                   onInitPending, windows, windowCount, allClosedQueued,
                   unhandled, readyFired, activateCount, applicationMenu, running>>

\* The call createServer(), its effects applied to the state. The promise
\* it returns is dropped: when it is rejected nothing handles it.
callCreateServer ==
  LET r == createServer(electronEnv, heap)
  IN  /\ heap' = r.heap
      /\ log' = log \o r.events
      /\ serverContexts' = IF r.context # Null
                           THEN Append(serverContexts, r.context)
                           ELSE serverContexts
      /\ onInitPending' = IF r.ran THEN onInitPending + 1 ELSE onInitPending
      /\ unhandled' = IF r.threw THEN unhandled + 1 ELSE unhandled

\* Microtask: the .then callback. With gated = FALSE it is the code's
\* result => { createServer(); }.
thenCallbackOn(gated) ==
  \E c \in 1..Len(chains) :
    /\ running
    /\ chains[c].pc = "dbResolved"
    /\ IF gated /\ chains[c].value # "true"
       THEN /\ chains' = [chains EXCEPT ![c].pc = "done"]
            /\ UNCHANGED <<heap, log, serverContexts, onInitPending, unhandled>>
       ELSE /\ callCreateServer
            /\ chains' = [chains EXCEPT ![c].pc = "done", ![c].serverCalled = TRUE]
    /\ UNCHANGED <<electronEnv, files, platform, windows, windowCount,
                   allClosedQueued, readyFired, activateCount, applicationMenu,
                   running>>

\* A .then callback that starts the server only when result is true.
thenCallbackGated == thenCallbackOn(TRUE)

thenCallback == thenCallbackOn(FALSE)

\* Microtask: the .catch callback. With proceed = FALSE it is the code's
\* err => { console.error(err.stack); }.
catchCallbackThen(proceed) ==
  \E c \in 1..Len(chains) :
    /\ running
    /\ chains[c].pc = "dbRejected"
    /\ IF proceed
       THEN /\ LET r == createServer(electronEnv, heap)
               IN  /\ heap' = r.heap
                   /\ log' = log \o <<Ev("console.error", chains[c].value)>> \o r.events
                   /\ serverContexts' = IF r.context # Null
                                        THEN Append(serverContexts, r.context)
                                        ELSE serverContexts
                   /\ onInitPending' = IF r.ran THEN onInitPending + 1 ELSE onInitPending
                   /\ unhandled' = IF r.threw THEN unhandled + 1 ELSE unhandled
            /\ chains' = [chains EXCEPT ![c].pc = "caught", ![c].serverCalled = TRUE]
       ELSE /\ chains' = [chains EXCEPT ![c].pc = "caught"]
            /\ log' = log \o <<Ev("console.error", chains[c].value)>>
            /\ UNCHANGED <<heap, serverContexts, onInitPending, unhandled>>
    /\ UNCHANGED <<electronEnv, files, platform, windows, windowCount,
                   allClosedQueued, readyFired, activateCount, applicationMenu,
                   running>>

\* A chain written .catch(...).then(...): the server is started after the
\* error was logged.
catchCallbackProceed == catchCallbackThen(TRUE)

catchCallback == catchCallbackThen(FALSE)

\* process 'unhandledRejection'.
onUnhandledRejection ==
  /\ Deliverable
  /\ unhandled > 0
  /\ unhandled' = unhandled - 1
  /\ log' = log \o <<Ev("console.log", "Unhandled Promise Rejection:")>>
  /\ UNCHANGED <<electronEnv, heap, files, platform, chains, serverContexts,
                 onInitPending, windows, windowCount, allClosedQueued,
                 readyFired, activateCount, applicationMenu, running>>

\* A loaded server, fully initialized, invokes electronEnv.server.onInit,
\* which it reaches through the electronEnv entry of its context. The
\* callback is createClient; it opens a window of the given size.
createClientSized(width, height) ==
  /\ Deliverable
  /\ onInitPending > 0
  /\ heap[serverContexts[Len(serverContexts)]]["electronEnv"] = "electronEnv"
  /\ electronEnv.server.onInit = "createClient"
  /\ onInitPending' = onInitPending - 1
  /\ windowCount' = windowCount + 1
  /\ windows' = windows \cup {windowCount + 1}
  /\ electronEnv' = [electronEnv EXCEPT !.client.host = windowCount + 1]
  /\ log' = log \o <<Ev("onInit", ""),
                     WindowEv(width, height,
                              electronEnv.dir.client \o "index.html", appTitle)>>
  /\ UNCHANGED <<heap, files, platform, chains, serverContexts, allClosedQueued,
                 unhandled, readyFired, activateCount, applicationMenu, running>>

\* createClient with width and height exchanged.
createClientSwapped ==
  createClientSized(electronEnv.client.height, electronEnv.client.width)

createClient ==
  createClientSized(electronEnv.client.width, electronEnv.client.height)

\* BrowserWindow 'closed' (the user closes window w).
onClientHostClosedTo(env) ==
  \E w \in windows :
    /\ Deliverable
    /\ windows' = windows \ {w}
    /\ electronEnv' = env
    /\ allClosedQueued' = (windows' = {})
    /\ UNCHANGED <<heap, files, platform, chains, serverContexts, onInitPending,
                   windowCount, unhandled, readyFired, activateCount,
                   applicationMenu, running, log>>

\* onClientHostClosed also dropping the adapter's handle.
onClientHostClosedReset ==
  onClientHostClosedTo([electronEnv EXCEPT !.client.host = Null,
                                           !.database.sqlite3.adapter = Null])

\* function onClientHostClosed: electronEnv.client.host = null.
onClientHostClosed ==
  onClientHostClosedTo([electronEnv EXCEPT !.client.host = Null])

\* app 'window-all-closed'.
onAppAllWindowsClosed ==
  /\ Deliverable
  /\ allClosedQueued
  /\ allClosedQueued' = FALSE
  /\ running' = (platform = "darwin")
  /\ UNCHANGED <<electronEnv, heap, files, platform, chains, serverContexts,
                 onInitPending, windows, windowCount, unhandled, readyFired,
                 activateCount, applicationMenu, log>>

Next ==
  \/ onAppReady
  \/ onAppActivate
  \/ InitializeSettles
  \/ startDatabaseContinue
  \/ thenCallback
  \/ catchCallback
  \/ onUnhandledRejection
  \/ createClient
  \/ onClientHostClosed
  \/ onAppAllWindowsClosed

Spec == Init /\ [][Next]_vars

\* startDatabase applied to a name drawn from AdapterNames, with or without
\* a descriptor in electronEnv.database: the chain expression of the
\* handlers evaluated once more for that name.
AdapterNames == {"sqlite3", "mysql"}

startDatabaseNamed ==
  \E name \in AdapterNames :
    /\ Deliverable
    /\ \A c \in 1..Len(chains) : chains[c].trigger # "call"
    /\ startChainFor("call", name)
    /\ UNCHANGED <<files, platform, serverContexts, onInitPending, windows,
                   windowCount, allClosedQueued, unhandled, readyFired,
                   activateCount, applicationMenu, running>>

NextNamed == Next \/ startDatabaseNamed

SpecNamed == Init /\ [][NextNamed]_vars

\* The microtask queue is always drained.
FairSpec ==
  /\ Spec
  /\ WF_vars(startDatabaseContinue)
  /\ WF_vars(thenCallback)
  /\ WF_vars(catchCallback)

TypeOK ==
  /\ running \in BOOLEAN
  /\ activateCount \in 0..MaxActivate
  /\ Len(heap) >= 1

----------------------------------------------------------------------------
\* Properties.

\* Upper bound on the number of chains (one per delivered trigger).
MaxChains == MaxActivate + 1

HasChain(c) == c <= Len(chains)

\* The startDatabase promise of chain c is settled.
StartSettled(c) == chains[c].pc \in {"dbResolved", "dbRejected", "done", "caught"}

\* The handle of the sqlite3 adapter.
Handle == electronEnv.database.sqlite3.adapter

\* The events of the end-to-end sequence, in the order they were observed.
Observable ==
  SelectSeq(log, LAMBDA ev : ev.e \in {"adapterLoaded", "adapterInitialized",
                                        "serverLoaded", "onInit", "windowCreate"})

IsPrefix(a, b) == Len(a) <= Len(b) /\ SubSeq(b, 1, Len(a)) = a

\* C1: createServer has not begun for a trigger while that trigger's
\* startDatabase call (script load plus initialize) is still unsettled.
C1_ServerAfterDatabaseSettled ==
  \A c \in 1..Len(chains) :
    chains[c].serverCalled =>
      /\ StartSettled(c)
      /\ chains[c].initCalled => chains[c].init.kind # "pending"

C1_Witness ==
  \E c \in 1..Len(chains) :
    /\ chains[c].serverCalled
    /\ chains[c].initCalled
    /\ chains[c].init.kind = "resolved"

\* C2 (as claimed): when initialize resolves with v, startDatabase resolves
\* with that same v.
C2_StartResolvesWithInitValue ==
  \A c \in 1..Len(chains) :
    (chains[c].init.kind = "resolved" /\ StartSettled(c)) =>
      (chains[c].pc \in {"dbResolved", "done"} /\ chains[c].value = chains[c].init.v)

\* C3 (as claimed): when initialize rejects, startDatabase logs an error
\* naming the adapter and resolves with false; it never throws.
C3_RejectionAbsorbed ==
  \A c \in 1..Len(chains) :
    (chains[c].init.kind = "rejected" /\ chains[c].pc # "resume") =>
      /\ chains[c].pc \in {"dbResolved", "done"}
      /\ chains[c].value = "false"
      /\ \E i \in 1..Len(log) :
           log[i] = Ev("console.error", "Couldn't initialize " \o chains[c].adapter)

\* C4: whenever startDatabase has resolved, with true or with false, the
\* server script load (createServer) is eventually invoked.
C4_ResolvedLeadsToServer ==
  \A c \in 1..MaxChains :
    /\ (HasChain(c) /\ chains[c].pc = "dbResolved" /\ chains[c].value = "true")
         ~> (HasChain(c) /\ chains[c].serverCalled)
    /\ (HasChain(c) /\ chains[c].pc = "dbResolved" /\ chains[c].value = "false")
         ~> (HasChain(c) /\ chains[c].serverCalled)

C4_Witness ==
  \E c \in 1..Len(chains) :
    /\ chains[c].init.kind = "rejected"
    /\ chains[c].value = "false"
    /\ chains[c].serverCalled

C6_AdapterContextWithoutEnv ==
  Handle # Null => heap[Handle]["electronEnv"] # "electronEnv"

\* C7 (as claimed): the adapter's context and the server's context are
\* distinct objects, and a name the adapter script bound in its context is
\* still the adapter's after the server script ran.
C7_ContextsNotShared ==
  Handle # Null =>
    /\ \A i \in 1..Len(serverContexts) : serverContexts[i] # Handle
    /\ \A n \in DOMAIN heap[Handle] :
         n \in files[electronEnv.database.sqlite3.script].binds =>
           heap[Handle][n] = "adapter:" \o n

\* C8: an activate event delivered while a server context and a window
\* exist starts no chain, creates no context and no window and leaves the
\* environment as it is; there is never more than one startDatabase call,
\* one server context or one window-creation call.
C8_ReactivateNoOp ==
  /\ [][(/\ activateCount' = activateCount + 1
         /\ electronEnv.client.host # Null
         /\ serverContexts # <<>>)
        => (/\ chains' = chains
            /\ serverContexts' = serverContexts
            /\ windowCount' = windowCount
            /\ windows' = windows
            /\ electronEnv' = electronEnv
            /\ heap' = heap)]_vars
  /\ [](Len(chains) <= 1 /\ Len(serverContexts) <= 1 /\ windowCount <= 1)

C8_Witness ==
  /\ electronEnv.client.host # Null
  /\ serverContexts # <<>>
  /\ \E i, j \in 1..Len(log) :
       i < j /\ log[i].e = "windowCreate" /\ log[j].e = "activate"

\* C9 (as claimed): an activate event delivered while the window reference
\* is null invokes startDatabase("sqlite3").
C9_ReactivateStartsDatabase ==
  [][(activateCount' = activateCount + 1 /\ electronEnv.client.host = Null)
     => (/\ Len(chains') = Len(chains) + 1
         /\ chains'[Len(chains')].adapter = "sqlite3")]_vars

\* C10: when initialize resolved with true, the observable events are at
\* every moment a prefix of: adapter loaded, adapter initialized(true),
\* server loaded, readiness callback, window creation with the configured
\* width, height and content path; once a window was created they are
\* exactly that sequence.
EndToEnd ==
  <<Ev("adapterLoaded", "sqlite3"),
    Ev("adapterInitialized", "true"),
    Ev("serverLoaded", "../server/server.js"),
    Ev("onInit", ""),
    WindowEv(1024, 768, "../web/index.html", "CypherPoker.JS v0.4.0")>>

C10_EndToEndOrder ==
  (\E c \in 1..Len(chains) : chains[c].init = [kind |-> "resolved", v |-> "true"]) =>
    /\ IsPrefix(Observable, EndToEnd)
    /\ windowCount > 0 => Observable = EndToEnd

C10_Witness ==
  /\ \E c \in 1..Len(chains) : chains[c].init = [kind |-> "resolved", v |-> "true"]
  /\ windowCount = 1
  /\ Observable = EndToEnd

\* A step that evaluates the chain expression (calls startDatabase).
StartStep == Len(chains') = Len(chains) + 1

\* The server script fails to load: unreadable, or its execution raises.
ServerScriptFails ==
  LET f == readFileSync(electronEnv.dir.server \o "server.js")
  IN  ~f.exists \/ f.error # "none"

\* C11: when the adapter's script cannot be read, startDatabase throws
\* before any object is created and leaves the descriptors (the handle
\* included) as they were.
C11_MissingScriptNoContext ==
  [][(StartStep /\ ~readFileSync(electronEnv.database.sqlite3.script).exists)
     => (/\ chains'[Len(chains')].pc = "dbRejected"
         /\ chains'[Len(chains')].threw = "load"
         /\ heap' = heap
         /\ electronEnv'.database = electronEnv.database)]_vars

C11_Witness ==
  /\ ~readFileSync(electronEnv.database.sqlite3.script).exists
  /\ Len(chains) > 0
  /\ Handle = Null
  /\ Len(heap) = 1

\* C12 (as claimed): the names of the capability set template are the
\* configured ones, and every value other than electronEnv is the
\* configured one.
C12_TemplateImmutable ==
  /\ DOMAIN heap[ExposedObjectsRef] = CapabilityNames
  /\ \A n \in CapabilityNames \ {"electronEnv"} :
       heap[ExposedObjectsRef][n] = ExposedObjectsInit[n]

\* C13 (as claimed): an error raised while the server script is loaded
\* rejects the startup chain, so that the chain's catch callback handles it:
\* the chain does not end fulfilled and the error is not left to the
\* process's unhandled-rejection handler.
C13_ServerErrorReachesCatch ==
  \A c \in 1..Len(chains) :
    (chains[c].serverCalled /\ ServerScriptFails) =>
      /\ chains[c].pc \in {"dbRejected", "caught"}
      /\ unhandled = 0
      /\ Count("console.log") = 0

\* C14: startDatabase with a name that has no descriptor ends with a
\* rejected promise (not with false) and leaves every descriptor and the
\* heap, the capability set included, as they were.
C14_UnknownAdapterThrows ==
  [][(StartStep /\ chains'[Len(chains')].adapter \notin DOMAIN electronEnv.database)
     => (/\ chains'[Len(chains')].pc = "dbRejected"
         /\ chains'[Len(chains')].value = "TypeError"
         /\ electronEnv' = electronEnv
         /\ heap' = heap)]_vars

C14_Witness ==
  \E c \in 1..Len(chains) :
    /\ chains[c].adapter = "mysql"
    /\ chains[c].pc = "caught"
    /\ ~chains[c].serverCalled

\* C15: in every state where initialize was invoked (pending or settled),
\* and also where it could not be invoked because the script binds no
\* initialize, the descriptor's handle is non-null.
C15_HandleStoredBeforeInitialize ==
  \A c \in 1..Len(chains) :
    (\/ chains[c].initCalled
     \/ chains[c].pc \in {"awaitInit", "resume"}
     \/ chains[c].init.kind # "pending"
     \/ \E i \in 1..Len(log) : log[i] = Ev("adapterLoaded", chains[c].adapter))
      => Handle # Null

C15_Witness ==
  \E c \in 1..Len(chains) :
    /\ chains[c].init.kind = "rejected"
    /\ chains[c].pc \in {"done", "caught"}
    /\ Handle # Null

\* C16 (as claimed): while initialize is pending no server load was
\* attempted and no window exists; and once initialize has settled and the
\* chain has run to its end, the server load was invoked.
C16_HungBlocksSettledProceeds ==
  \A c \in 1..Len(chains) :
    /\ chains[c].pc = "awaitInit" =>
         (Count("createServer") = 0 /\ windowCount = 0)
    /\ (chains[c].init.kind # "pending" /\ chains[c].pc \in {"done", "caught"}) =>
         chains[c].serverCalled

\* C17: a window's closed notification sets the window reference to null
\* and leaves the rest of electronEnv, the heap, the chains, the server
\* contexts and the log as they were.
C17_ClosedResetsOnlyHost ==
  [][(windows' # windows /\ windows' \subseteq windows)
     => (/\ electronEnv'.client.host = Null
         /\ electronEnv' = [electronEnv EXCEPT !.client.host = Null]
         /\ heap' = heap
         /\ chains' = chains
         /\ serverContexts' = serverContexts
         /\ onInitPending' = onInitPending
         /\ log' = log)]_vars

C17_Witness ==
  /\ windowCount > 0
  /\ windows = {}
  /\ electronEnv.client.host = Null
  /\ Handle # Null
  /\ serverContexts # <<>>

\* C18: a non-null window reference implies that some startDatabase call
\* settled without throwing, that its chain invoked the server load, that
\* the server script was loaded and that the readiness callback ran.
C18_WindowOnlyAfterServer ==
  electronEnv.client.host # Null =>
    /\ \E c \in 1..Len(chains) :
         /\ chains[c].pc = "done"
         /\ chains[c].threw = "none"
         /\ chains[c].serverCalled
    /\ \A c \in 1..Len(chains) : chains[c].serverCalled => chains[c].threw = "none"
    /\ \E i, j \in 1..Len(log) :
         i < j /\ log[i].e = "serverLoaded" /\ log[j].e = "onInit"

C18_Witness ==
  /\ electronEnv.client.host # Null
  /\ electronEnv.client.host \in windows

====
